---- MODULE Spec2Model ----
(***************************************************************************)
(* Verification model of the cpp_templates snippets: the case-insensitive *)
(* string (ci_char_traits / ci_string), the CRTP ObjectCounter, the       *)
(* type-erasing FunctionPtr and Any, and the typelist metafunctions.      *)
(* Every snippet is an isolated program, so each gets its own             *)
(* specification over its own variables; the other variables stay at      *)
(* their initial value.                                                    *)
(***************************************************************************)
EXTENDS Integers, Sequences, FiniteSets, TLC

VARIABLES
  ci_pc,      \* position of the ci_string program: start/constructed/compared/strcmp
  ci_src,     \* the C string the ci_string was constructed from (NUL-terminated)
  ci_s,       \* characters stored by the ci_string (no terminator)
  ci_rhs,     \* the C string handed to operator== / strcmp
  ci_eq,      \* result of the last  s == rhs
  ci_cmp,     \* result of the last  std::strcmp(s.c_str(), rhs)
  oc_count,   \* ObjectCounter<T>::count, one static per T
  oc_objects, \* per T, the state of each object slot: free / alive / moved_from
  fp_heap,    \* the SpecificFunctorBridge objects on the heap, by address
  fp_ptr,     \* the FunctionPtr<int(int)> objects: alive or not, and their bridge
  fp_origin,  \* history: how each FunctionPtr was made and from which callable
  fp_call,    \* the invocation just made, if any: object, argument, returned value
  fp_status,  \* running, or crashed after a null / dangling bridge was used
  tl_list,    \* the typelist L handed to the metafunction
  tl_elem,    \* the type T (new element or initial type) handed to it
  tl_op,      \* the alias instantiated last ("none" before any)
  tl_result,  \* the type that alias names, or the ill-formed marker
  any_pc,     \* the Any program: start / constructed / has_value / get_value
  any_arg,    \* the object handed to Any's constructor: its type and value
  any_held,   \* what Any::held points to (class and object), or the null pointer
  any_req,    \* the T of the last get_value<T>()
  any_out,    \* outcome of the last statement: how it ended and the value it gave
  pr_n,       \* the number N the primality templates are instantiated with
  pr_is98,    \* cpp98::is_prime<N>::value, once instantiated ("unset" before)
  pr_is14,    \* cpp14::is_prime(N), once evaluated
  pr_alt98,   \* the specialization cpp98::Alternative<N> names
  pr_alt14,   \* the specialization cpp14::Alternative<N> names
  pr_foo98,   \* what cpp98::foo<N>() prints after "N is "
  pr_foo14,   \* what cpp14::foo<N>() prints after "N is "
  fe_pc,      \* position of the foreach call: start/loop/done
  fe_vec,     \* the container the iterators point into
  fe_first,   \* the iterator foreach was called with (an index into fe_vec)
  fe_current, \* foreach's parameter current
  fe_end,     \* foreach's parameter end
  fe_op,      \* foreach's parameter op
  fe_args,    \* foreach's parameter pack args
  fe_log,     \* what op was invoked with, one entry per invocation
  ft_pc,      \* position of the fold_traverse program: start/returned
  ft_heap,    \* the Node objects, by address
  ft_root,    \* fold_traverse's argument root
  ft_steps,   \* fold_traverse's argument pack steps
  ft_result,  \* what the call did: the pointer returned, or a crash
  st_pc,      \* position of the String program: start/constructing/done
  st_log,     \* the String constructions compiled so far: argument, viable constructors, constructor chosen
  cx_pc,      \* position of the Complex program: start/constructed
  cx_c,       \* the Complex object c: m_real and m_imag
  cx_prev,    \* c as it was before the last operation
  cx_op,      \* the last operation on c
  cx_ret,     \* what the last operation returned
  cs_a,       \* the C string the left operands are constructed from
  cs_b,       \* the C string the right operands are constructed from
  cs_eq,      \* CIString(a) == CIString(b), once evaluated ("unset" before)
  cs_ne,      \* CIString(a) != CIString(b), once evaluated
  cs_ci       \* ci_string(a) == ci_string(b), once evaluated

ci_vars == <<ci_pc, ci_src, ci_s, ci_rhs, ci_eq, ci_cmp>>
oc_vars == <<oc_count, oc_objects>>
fp_vars == <<fp_heap, fp_ptr, fp_origin, fp_call, fp_status>>

tl_vars == <<tl_list, tl_elem, tl_op, tl_result>>

any_vars == <<any_pc, any_arg, any_held, any_req, any_out>>

pr_vars == <<pr_n, pr_is98, pr_is14, pr_alt98, pr_alt14, pr_foo98, pr_foo14>>

fe_vars == <<fe_pc, fe_vec, fe_first, fe_current, fe_end, fe_op, fe_args, fe_log>>

ft_vars == <<ft_pc, ft_heap, ft_root, ft_steps, ft_result>>

st_vars == <<st_pc, st_log>>

cx_vars == <<cx_pc, cx_c, cx_prev, cx_op, cx_ret>>

cs_vars == <<cs_a, cs_b, cs_eq, cs_ne, cs_ci>>

vars == <<ci_vars, oc_vars, fp_vars, tl_vars, any_vars, pr_vars, fe_vars, ft_vars, st_vars, cx_vars, cs_vars>>

\* ------------------------------------------------------------------------
\* Bounds
\* ------------------------------------------------------------------------
MaxStrLen == 3
MaxObjects == 3
MaxPtrs == 2
MaxBridges == 2
MaxArg == 2
MaxListLen == 3
MaxAnyValue == 5
MaxN == 70
\* longest container handed to foreach
MaxVecLen == 3
\* Node objects on the heap
MaxNodes == 4
\* longest pack of steps handed to fold_traverse
MaxSteps == 3
\* String constructions in one program
MaxStatements == 2
\* largest real or imaginary part of a Complex
MaxPart == 3
\* longest string the CIString operands are constructed from
MaxCILen == 2

\* ------------------------------------------------------------------------
\* Case-insensitive string: ci_char_traits and ci_string
\* ------------------------------------------------------------------------
\* characters: '?' (63), 'A' (65), 'a' (97), 'b' (98); 0 is the terminator
Chars == {63, 65, 97, 98}

RECURSIVE SeqsUpTo(_, _)
SeqsUpTo(S, n) ==
  IF n = 0 THEN {<<>>}
  ELSE LET shorter == SeqsUpTo(S, n - 1)
       IN shorter \cup {Append(s, c) : s \in {t \in shorter : Len(t) = n - 1}, c \in S}

\* NUL-terminated C strings of at most MaxStrLen characters
CStrings == {Append(s, 0) : s \in SeqsUpTo(Chars, MaxStrLen)}

\* a to_upper whose range test excludes 'a'
to_upper_excl_a(ch) == IF ch > 97 /\ ch <= 122 THEN ch - 32 ELSE ch

\* std::toupper in the "C" locale, on the value converted to unsigned char
to_upper(ch) == IF ch >= 97 /\ ch <= 122 THEN ch - 32 ELSE ch

\* ci_char_traits::eq
eq(c1, c2) == to_upper(c1) = to_upper(c2)

\* ci_char_traits::lt
lt(c1, c2) == to_upper(c1) < to_upper(c2)

\* ci_char_traits::compare(s1, s2, n): the loop over the first n characters,
\* s1 and s2 read from index i on
RECURSIVE compare_from(_, _, _, _)
compare_from(s1, s2, i, n) ==
  IF n = 0 THEN 0
  ELSE IF to_upper(s1[i]) < to_upper(s2[i]) THEN -1
  ELSE IF to_upper(s1[i]) > to_upper(s2[i]) THEN 1
  ELSE compare_from(s1, s2, i + 1, n - 1)

compare(s1, s2, n) == compare_from(s1, s2, 1, n)

\* std::char_traits<char>::length (inherited): index of the first NUL
RECURSIVE length_from(_, _)
length_from(s, i) == IF s[i] = 0 THEN 0 ELSE 1 + length_from(s, i + 1)

length(s) == length_from(s, 1)

\* a constructor that normalises the case of what it stores
basic_string_upper(str) == [i \in 1..length(str) |-> to_upper(str[i])]

\* basic_string(const char*): length() characters copied by the inherited
\* char_traits<char>::copy
basic_string(str) == [i \in 1..length(str) |-> str[i]]

\* basic_string::c_str(): the stored characters followed by the terminator
c_str(s) == Append(s, 0)

Min(a, b) == IF a <= b THEN a ELSE b

Sign(x) == IF x < 0 THEN -1 ELSE IF x > 0 THEN 1 ELSE 0

\* basic_string::compare(const char*): traits compare over the common
\* prefix, then the difference of the lengths
string_compare(s, str) ==
  LET osize == length(str)
      r     == compare(s, str, Min(Len(s), osize))
  IN IF r # 0 THEN r ELSE Sign(Len(s) - osize)

\* operator==(const basic_string&, const char*)
string_equal(s, str) == string_compare(s, str) = 0

\* std::strcmp: byte-wise comparison up to and including the terminator
RECURSIVE strcmp_from(_, _, _)
strcmp_from(l, r, i) ==
  IF l[i] # r[i] THEN Sign(l[i] - r[i])
  ELSE IF l[i] = 0 THEN 0
  ELSE strcmp_from(l, r, i + 1)

strcmp(l, r) == strcmp_from(l, r, 1)

CIStart ==
  /\ ci_pc = "start"
  /\ ci_src = <<0>>
  /\ ci_s = <<>>
  /\ ci_rhs = <<0>>
  /\ ci_eq = FALSE
  /\ ci_cmp = 0

\* const auto s = ci_string{"..."};
CIConstruct ==
  /\ ci_pc = "start"
  /\ \E str \in CStrings :
       /\ ci_src' = str
       /\ ci_s' = basic_string(str)
  /\ ci_pc' = "constructed"
  /\ UNCHANGED <<ci_rhs, ci_eq, ci_cmp>>

\* s == "..."  /  s != "..."
CIEquals ==
  /\ ci_pc = "constructed"
  /\ \E str \in CStrings :
       /\ ci_rhs' = str
       /\ ci_eq' = string_equal(ci_s, str)
  /\ ci_pc' = "compared"
  /\ UNCHANGED <<ci_src, ci_s, ci_cmp>>

\* std::strcmp(s.c_str(), "...")
CIStrcmp ==
  /\ ci_pc = "constructed"
  /\ \E str \in CStrings :
       /\ ci_rhs' = str
       /\ ci_cmp' = strcmp(c_str(ci_s), str)
  /\ ci_pc' = "strcmp"
  /\ UNCHANGED <<ci_src, ci_s, ci_eq>>

\* the assert has been evaluated; control moves on to the next statement
CIStatementEnd ==
  /\ ci_pc \in {"compared", "strcmp"}
  /\ ci_pc' = "constructed"
  /\ ci_rhs' = <<0>>
  /\ ci_eq' = FALSE
  /\ ci_cmp' = 0
  /\ UNCHANGED <<ci_src, ci_s>>

CINext ==
  \/ CIConstruct /\ UNCHANGED <<oc_vars, fp_vars, tl_vars, any_vars, pr_vars, fe_vars, ft_vars, st_vars, cx_vars, cs_vars>>
  \/ CIEquals /\ UNCHANGED <<oc_vars, fp_vars, tl_vars, any_vars, pr_vars, fe_vars, ft_vars, st_vars, cx_vars, cs_vars>>
  \/ CIStrcmp /\ UNCHANGED <<oc_vars, fp_vars, tl_vars, any_vars, pr_vars, fe_vars, ft_vars, st_vars, cx_vars, cs_vars>>
  \/ CIStatementEnd /\ UNCHANGED <<oc_vars, fp_vars, tl_vars, any_vars, pr_vars, fe_vars, ft_vars, st_vars, cx_vars, cs_vars>>

\* ---- claims about ci_string -------------------------------------------
IsLetter(c) == (c >= 65 /\ c <= 90) \/ (c >= 97 /\ c <= 122)

\* c and d are the same character or the two cases of one letter
CaseVariant(c, d) ==
  \/ c = d
  \/ IsLetter(c) /\ IsLetter(d) /\ (c - d = 32 \/ d - c = 32)

\* two C strings of the same length whose characters match up to case
SameUpToCase(a, b) ==
  /\ Len(a) = Len(b)
  /\ \A i \in 1..Len(a) : CaseVariant(a[i], b[i])

\* C1: ci_string(a) == b holds exactly when a and b have the same length and
\* match position by position up to the case of letters.
C1_EqualIffSameUpToCase ==
  ci_pc = "compared" => (ci_eq <=> SameUpToCase(ci_src, ci_rhs))

\* a comparison that succeeded between two different spellings
C1_Witness ==
  ci_pc = "compared" /\ ci_eq /\ ci_src # ci_rhs /\ Len(ci_src) > 2

\* C2: the traits change comparison only: the ci_string stores the characters
\* of the C string unchanged, so strcmp on c_str() is 0 exactly for the
\* original spelling.
C2_StoredUnchanged ==
  /\ ci_pc # "start" => c_str(ci_s) = ci_src
  /\ ci_pc = "strcmp" => ((ci_cmp = 0) <=> (ci_rhs = ci_src))

\* strcmp tells apart a spelling that operator== accepts
C2_Witness ==
  /\ ci_pc = "strcmp" /\ ci_cmp # 0
  /\ ci_rhs # ci_src /\ SameUpToCase(ci_src, ci_rhs)

\* ------------------------------------------------------------------------
\* CRTP: ObjectCounter<T>
\* ------------------------------------------------------------------------
\* the classes derived from ObjectCounter: each instantiates its own count
CountedTypes == {"Countable<char>", "Countable<int>"}

ObjectSlots == 1..MaxObjects

\* a move constructor that forgets to count the new object
ObjectCounter_move_uncounted(count) == count

\* ObjectCounter():  count++
ObjectCounter_default(count) == count + 1

\* ObjectCounter(const ObjectCounter<T> &):  count++
ObjectCounter_copy(count) == count + 1

\* ObjectCounter(ObjectCounter<T> &&):  count++
ObjectCounter_move(count) == count + 1

\* ~ObjectCounter():  count--   (count is a std::size_t: a decrement at 0
\* would wrap; it is kept as the integer below zero so that it shows)
ObjectCounter_destroy(count) == count - 1

\* static std::size_t live()
live(T) == oc_count[T]

OCStart ==
  /\ oc_count = [T \in CountedTypes |-> 0]
  /\ oc_objects = [T \in CountedTypes |-> [o \in ObjectSlots |-> "free"]]

\* T x;
OCDefaultConstruct ==
  \E T \in CountedTypes, o \in ObjectSlots :
    /\ oc_objects[T][o] = "free"
    /\ oc_count' = [oc_count EXCEPT ![T] = ObjectCounter_default(@)]
    /\ oc_objects' = [oc_objects EXCEPT ![T][o] = "alive"]

\* T y{x};
OCCopyConstruct ==
  \E T \in CountedTypes, o \in ObjectSlots, from \in ObjectSlots :
    /\ oc_objects[T][o] = "free"
    /\ oc_objects[T][from] # "free"
    /\ oc_count' = [oc_count EXCEPT ![T] = ObjectCounter_copy(@)]
    /\ oc_objects' = [oc_objects EXCEPT ![T][o] = "alive"]

\* T y{std::move(x)};  x stays alive, moved-from, until it is destroyed
OCMoveConstruct ==
  \E T \in CountedTypes, o \in ObjectSlots, from \in ObjectSlots :
    /\ oc_objects[T][o] = "free"
    /\ oc_objects[T][from] # "free"
    /\ oc_count' = [oc_count EXCEPT ![T] = ObjectCounter_move(@)]
    /\ oc_objects' = [oc_objects EXCEPT ![T][o] = "alive", ![T][from] = "moved_from"]

\* the end of an object's lifetime
OCDestroy ==
  \E T \in CountedTypes, o \in ObjectSlots :
    /\ oc_objects[T][o] # "free"
    /\ oc_count' = [oc_count EXCEPT ![T] = ObjectCounter_destroy(@)]
    /\ oc_objects' = [oc_objects EXCEPT ![T][o] = "free"]

OCNext ==
  \/ OCDefaultConstruct /\ UNCHANGED <<ci_vars, fp_vars, tl_vars, any_vars, pr_vars, fe_vars, ft_vars, st_vars, cx_vars, cs_vars>>
  \/ OCCopyConstruct /\ UNCHANGED <<ci_vars, fp_vars, tl_vars, any_vars, pr_vars, fe_vars, ft_vars, st_vars, cx_vars, cs_vars>>
  \/ OCMoveConstruct /\ UNCHANGED <<ci_vars, fp_vars, tl_vars, any_vars, pr_vars, fe_vars, ft_vars, st_vars, cx_vars, cs_vars>>
  \/ OCDestroy /\ UNCHANGED <<ci_vars, fp_vars, tl_vars, any_vars, pr_vars, fe_vars, ft_vars, st_vars, cx_vars, cs_vars>>

\* ---- claims about ObjectCounter ---------------------------------------
AliveObjects(T) == {o \in ObjectSlots : oc_objects[T][o] # "free"}

\* C3: live() of each T is the number of objects of that T currently alive,
\* moved-from objects included, and the count never drops below zero.
C3_LiveCountsAliveObjects ==
  \A T \in CountedTypes :
    /\ live(T) = Cardinality(AliveObjects(T))
    /\ live(T) >= 0

\* a moved-from object and its successor are both counted, while the other
\* type has a different count
C3_Witness ==
  \E T \in CountedTypes, U \in CountedTypes :
    /\ \E o \in ObjectSlots : oc_objects[T][o] = "moved_from"
    /\ live(T) = 3
    /\ live(U) = 1

\* ------------------------------------------------------------------------
\* Type erasure: FunctorBridge, SpecificFunctorBridge, FunctionPtr<R(Args...)>
\* instantiated as FunctionPtr<int(int)>
\* ------------------------------------------------------------------------
\* the callables bound: a plain function (x + 1), a functor struct with a
\* member k (k * x) and a lambda capturing c (x - c)
Callables ==
  { [kind |-> "function", k |-> 1],
    [kind |-> "functor",  k |-> 2],
    [kind |-> "lambda",   k |-> 3] }

Args == 0..MaxArg

\* f(x), the direct call of the callable
Call(f, x) ==
  CASE f.kind = "function" -> x + f.k
    [] f.kind = "functor"  -> f.k * x
    [] f.kind = "lambda"   -> x - f.k

nullptr == 0
Addresses == 1..MaxBridges
PtrSlots == 1..MaxPtrs

NoFunctor == [kind |-> "none", k |-> 0]
FreeCell == [used |-> FALSE, functor |-> NoFunctor]
NoPtr == [alive |-> FALSE, bridge |-> nullptr]
NoOrigin == [how |-> "none", f |-> NoFunctor]
NoCall == [slot |-> 0, arg |-> 0, result |-> 0]

FreeAddresses == {a \in Addresses : ~fp_heap[a].used}

\* SpecificFunctorBridge(FunctorType &&f): functor{std::forward<FunctorType>(f)}
SpecificFunctorBridge(f) == [used |-> TRUE, functor |-> f]

\* SpecificFunctorBridge::clone(): new SpecificFunctorBridge(functor)
clone(bridge) == SpecificFunctorBridge(bridge.functor)

\* SpecificFunctorBridge::invoke(args...): functor(args...)
invoke(bridge, x) == Call(bridge.functor, x)

\* a copy constructor that copies the pointer instead of cloning the bridge
copy_bridge_shallow(other_bridge, cloned) == other_bridge

\* FunctionPtr(const FunctionPtr &other): bridge = other.bridge->clone()
copy_bridge(other_bridge, cloned) == cloned

\* values a read through a dangling bridge may produce
GarbageResults == -1..(MaxArg + 1)

FPStart ==
  /\ fp_heap = [a \in Addresses |-> FreeCell]
  /\ fp_ptr = [p \in PtrSlots |-> NoPtr]
  /\ fp_origin = [p \in PtrSlots |-> NoOrigin]
  /\ fp_call = NoCall
  /\ fp_status = "running"

\* FunctionPtr<int(int)> p{f};   template <typename FunctionType> FunctionPtr(FunctionType &&f)
FPConstruct ==
  /\ fp_status = "running"
  /\ \E p \in PtrSlots, f \in Callables, a \in FreeAddresses :
       /\ ~fp_ptr[p].alive
       /\ fp_heap' = [fp_heap EXCEPT ![a] = SpecificFunctorBridge(f)]
       /\ fp_ptr' = [fp_ptr EXCEPT ![p] = [alive |-> TRUE, bridge |-> a]]
       /\ fp_origin' = [fp_origin EXCEPT ![p] = [how |-> "callable", f |-> f]]
  /\ fp_call' = NoCall
  /\ UNCHANGED fp_status

\* FunctionPtr<int(int)> p{other};   FunctionPtr(FunctionPtr &) delegates to
\* FunctionPtr(const FunctionPtr &); a null other.bridge is dereferenced
FPCopyConstruct ==
  /\ fp_status = "running"
  /\ \E p \in PtrSlots, other \in PtrSlots :
       /\ ~fp_ptr[p].alive
       /\ fp_ptr[other].alive
       /\ IF fp_ptr[other].bridge = nullptr \/ ~fp_heap[fp_ptr[other].bridge].used
          THEN /\ fp_status' = "crashed"
               /\ UNCHANGED <<fp_heap, fp_ptr, fp_origin>>
          ELSE \E a \in FreeAddresses :
               /\ fp_heap' = [fp_heap EXCEPT ![a] = clone(fp_heap[fp_ptr[other].bridge])]
               /\ fp_ptr' = [fp_ptr EXCEPT ![p] =
                              [alive |-> TRUE, bridge |-> copy_bridge(fp_ptr[other].bridge, a)]]
               /\ fp_origin' = [fp_origin EXCEPT ![p] = [how |-> "copy", f |-> fp_origin[other].f]]
               /\ fp_status' = fp_status
  /\ fp_call' = NoCall

\* FunctionPtr<int(int)> p{std::move(other)}:  bridge{other.bridge}, other.bridge = nullptr
FPMoveConstruct ==
  /\ fp_status = "running"
  /\ \E p \in PtrSlots, other \in PtrSlots :
       /\ ~fp_ptr[p].alive
       /\ fp_ptr[other].alive
       /\ fp_ptr' = [fp_ptr EXCEPT ![p] = [alive |-> TRUE, bridge |-> fp_ptr[other].bridge],
                                   ![other] = [alive |-> TRUE, bridge |-> nullptr]]
       /\ fp_origin' = [fp_origin EXCEPT ![p] = [how |-> "move", f |-> fp_origin[other].f]]
  /\ fp_call' = NoCall
  /\ UNCHANGED <<fp_heap, fp_status>>

\* ~FunctionPtr(): delete bridge   (deleting nullptr does nothing; deleting
\* a bridge twice is a double free)
FPDestroy ==
  /\ fp_status = "running"
  /\ \E p \in PtrSlots :
       /\ fp_ptr[p].alive
       /\ LET b == fp_ptr[p].bridge IN
          IF b # nullptr /\ ~fp_heap[b].used
          THEN /\ fp_status' = "crashed"
               /\ UNCHANGED <<fp_heap, fp_ptr, fp_origin>>
          ELSE /\ fp_heap' = IF b = nullptr THEN fp_heap
                             ELSE [fp_heap EXCEPT ![b] = FreeCell]
               /\ fp_ptr' = [fp_ptr EXCEPT ![p] = NoPtr]
               /\ fp_origin' = [fp_origin EXCEPT ![p] = NoOrigin]
               /\ fp_status' = fp_status
  /\ fp_call' = NoCall

\* p(x):  bridge->invoke(args...); a null bridge is dereferenced, a deleted
\* one is read after free
FPInvoke ==
  /\ fp_status = "running"
  /\ \E p \in PtrSlots, x \in Args :
       /\ fp_ptr[p].alive
       /\ LET b == fp_ptr[p].bridge IN
          IF b = nullptr
          THEN fp_status' = "crashed" /\ UNCHANGED fp_call
          ELSE IF ~fp_heap[b].used
          THEN \/ fp_status' = "crashed" /\ UNCHANGED fp_call
               \/ \E r \in GarbageResults :
                    /\ fp_call' = [slot |-> p, arg |-> x, result |-> r]
                    /\ fp_status' = fp_status
          ELSE /\ fp_call' = [slot |-> p, arg |-> x, result |-> invoke(fp_heap[b], x)]
               /\ fp_status' = fp_status
  /\ UNCHANGED <<fp_heap, fp_ptr, fp_origin>>

FPNext ==
  \/ FPConstruct /\ UNCHANGED <<ci_vars, oc_vars, tl_vars, any_vars, pr_vars, fe_vars, ft_vars, st_vars, cx_vars, cs_vars>>
  \/ FPCopyConstruct /\ UNCHANGED <<ci_vars, oc_vars, tl_vars, any_vars, pr_vars, fe_vars, ft_vars, st_vars, cx_vars, cs_vars>>
  \/ FPMoveConstruct /\ UNCHANGED <<ci_vars, oc_vars, tl_vars, any_vars, pr_vars, fe_vars, ft_vars, st_vars, cx_vars, cs_vars>>
  \/ FPDestroy /\ UNCHANGED <<ci_vars, oc_vars, tl_vars, any_vars, pr_vars, fe_vars, ft_vars, st_vars, cx_vars, cs_vars>>
  \/ FPInvoke /\ UNCHANGED <<ci_vars, oc_vars, tl_vars, any_vars, pr_vars, fe_vars, ft_vars, st_vars, cx_vars, cs_vars>>

\* ---- claims about FunctionPtr -----------------------------------------
\* C4: invoking a FunctionPtr made from a callable f, or any FunctionPtr
\* copy-constructed from it, with argument x returns f(x).
C4_InvokeReturnsCallOfOrigin ==
  \A p \in PtrSlots : \A x \in Args :
    (/\ fp_status = "running"
     /\ fp_call.slot = p /\ fp_call.arg = x
     /\ fp_ptr[p].alive /\ fp_ptr[p].bridge # nullptr
     /\ fp_origin[p].how \in {"callable", "copy"})
    => fp_call.result = Call(fp_origin[p].f, x)

\* a copy was invoked after the FunctionPtr it was copied from is gone
C4_Witness ==
  /\ fp_status = "running"
  /\ fp_call.slot # 0
  /\ fp_origin[fp_call.slot].how = "copy"
  /\ fp_origin[fp_call.slot].f.kind = "lambda"
  /\ \A q \in PtrSlots \ {fp_call.slot} : ~fp_ptr[q].alive
  /\ fp_call.result = fp_call.arg - 3

\* ------------------------------------------------------------------------
\* Typelists: Typelist<...> and its metafunctions
\* ------------------------------------------------------------------------
\* A C++ type is one record shape: a scalar (name, const-qualified or not),
\* a Typelist of such types, or the marker of an ill-formed instantiation
\* (an incomplete class template, or an inaccessible member).
Scalar(n, c) == [kind |-> "scalar", name |-> n, const |-> c, elems |-> <<>>]
Typelist(es) == [kind |-> "Typelist", name |-> "", const |-> FALSE, elems |-> es]
IllFormed == [kind |-> "ill-formed", name |-> "", const |-> FALSE, elems |-> <<>>]

TypeNames == {"bool", "int", "long", "long long"}
ElementTypes == {Scalar(n, c) : n \in TypeNames, c \in BOOLEAN}
Typelists == {Typelist(es) : es \in SeqsUpTo(ElementTypes, MaxListLen)}

\* sizeof on LP64; an empty class such as Typelist<...> has size 1
sizeof(T) ==
  IF T.kind = "Typelist" THEN 1
  ELSE CASE T.name = "char" -> 1
         [] T.name = "bool" -> 1
         [] T.name = "int" -> 4
         [] T.name = "long" -> 8
         [] T.name = "long long" -> 8

\* FrontT<Typelist<Head, Tail...>>::Type; the primary template is incomplete
Front(List) ==
  IF List.kind = "Typelist" /\ Len(List.elems) > 0
  THEN List.elems[1] ELSE IllFormed

\* PopFrontT<Typelist<Head, Tail...>>::Type
PopFront(List) ==
  IF List.kind = "Typelist" /\ Len(List.elems) > 0
  THEN Typelist(Tail(List.elems)) ELSE IllFormed

\* a push that adds the new element behind the existing ones
PushFront_behind(List, NewElement) ==
  IF List.kind = "Typelist" /\ NewElement.kind # "ill-formed"
  THEN Typelist(List.elems \o <<NewElement>>) ELSE IllFormed

\* PushFrontT<Typelist<Elements...>, NewElement>::Type
PushFront(List, NewElement) ==
  IF List.kind = "Typelist" /\ NewElement.kind # "ill-formed"
  THEN Typelist(<<NewElement>> \o List.elems) ELSE IllFormed

\* IsEmpty<List>::value: true for Typelist<> only
IsEmpty(List) == List = Typelist(<<>>)

\* IfThenElseT<Cond, TrueT, FalseT>::Type
IfThenElse(Cond, TrueT, FalseT) == IF Cond THEN TrueT ELSE FalseT

\* LargestTypeT<List>::Type, the First-Rest recursion with its base case char
RECURSIVE LargestType(_)
LargestType(List) ==
  IF IsEmpty(List) THEN Scalar("char", FALSE)
  ELSE LET First == Front(List) IN
       IF First.kind = "ill-formed" THEN IllFormed
       ELSE LET Rest == LargestType(PopFront(List)) IN
            IF Rest.kind = "ill-formed" THEN IllFormed
            ELSE IfThenElse(sizeof(First) >= sizeof(Rest), First, Rest)

\* PushBackRecT<List, NewElement>::Type
RECURSIVE PushBackRec(_, _)
PushBackRec(List, NewElement) ==
  IF IsEmpty(List) THEN PushFront(List, NewElement)
  ELSE LET Head_ == Front(List)
           Tail_ == PopFront(List)
       IN IF Head_.kind = "ill-formed" THEN IllFormed
          ELSE PushFront(PushBackRec(Tail_, NewElement), Head_)

\* PushBackT<List, NewElement>::Type
PushBack(List, NewElement) == PushBackRec(List, NewElement)

\* the member alias Type of a class, with its access
Member(access, T) == [access |-> access, Type |-> T]

\* typename C::Type named from outside the class C
TypeOf(C) ==
  IF C.access = "public" /\ C.Type.kind # "ill-formed" THEN C.Type ELSE IllFormed

\* ReverseT<List, true>: class ReverseT { using Type = List; } -- the
\* alias is declared in a class without an access specifier, so it is private
ReverseT_base(List) == Member("private", List)

\* ReverseT<List>; the recursive case inherits publicly from
\* PushBackT<Reverse<PopFront<List>>, Front<List>>
RECURSIVE ReverseT(_)
ReverseT(List) ==
  IF IsEmpty(List) THEN ReverseT_base(List)
  ELSE IF Front(List).kind = "ill-formed" THEN Member("public", IllFormed)
  ELSE Member("public", PushBack(TypeOf(ReverseT(PopFront(List))), Front(List)))

\* Reverse<List> = typename ReverseT<List>::Type
Reverse(List) == TypeOf(ReverseT(List))

\* AddConstT<T>::Type = const T
AddConstT(T) == IF T.kind = "ill-formed" THEN IllFormed ELSE [T EXCEPT !.const = TRUE]

\* RemoveConstT<T>::Type (chapter 19)
RemoveConstT(T) == IF T.kind = "ill-formed" THEN IllFormed ELSE [T EXCEPT !.const = FALSE]

\* the unary metafunctions handed to Transform as template template argument
UnaryMetaFcns == {"AddConstT", "RemoveConstT"}

\* typename MetaFcn<T>::Type
MetaFcnType(MetaFcn, T) ==
  CASE MetaFcn = "AddConstT" -> AddConstT(T)
    [] MetaFcn = "RemoveConstT" -> RemoveConstT(T)

\* a transform that puts the transformed head behind the transformed rest
RECURSIVE Transform_head_last(_, _)
Transform_head_last(List, MetaFcn) ==
  IF IsEmpty(List) THEN List
  ELSE IF Front(List).kind = "ill-formed" THEN IllFormed
  ELSE PushBack(Transform_head_last(PopFront(List), MetaFcn),
                MetaFcnType(MetaFcn, Front(List)))

\* TransformT<List, MetaFcn>::Type
RECURSIVE Transform(_, _)
Transform(List, MetaFcn) ==
  IF IsEmpty(List) THEN List
  ELSE IF Front(List).kind = "ill-formed" THEN IllFormed
  ELSE PushFront(Transform(PopFront(List), MetaFcn), MetaFcnType(MetaFcn, Front(List)))

\* a comparison that lets the later of two equally large types win
LargerTypeT_strict(T, U) ==
  IF T.kind = "ill-formed" \/ U.kind = "ill-formed" THEN IllFormed
  ELSE IfThenElse(sizeof(T) > sizeof(U), T, U)

\* LargerTypeT<T, U>::Type
LargerTypeT(T, U) ==
  IF T.kind = "ill-formed" \/ U.kind = "ill-formed" THEN IllFormed
  ELSE IfThenElse(sizeof(T) >= sizeof(U), T, U)

\* PushFrontT used as the binary metafunction of a reduction
PushFrontT(List, NewElement) == PushFront(List, NewElement)

\* the binary metafunctions handed to Reduce as template template argument
BinaryMetaFcns == {"PushFrontT", "LargerTypeT"}

\* typename F<X, Y>::Type
FType(F, X, Y) ==
  CASE F = "PushFrontT" -> PushFrontT(X, Y)
    [] F = "LargerTypeT" -> LargerTypeT(X, Y)

\* a reduction in First-Rest form: it folds from the right
RECURSIVE Reduce_from_right(_, _, _)
Reduce_from_right(List, F, I) ==
  IF IsEmpty(List) THEN I
  ELSE IF Front(List).kind = "ill-formed" THEN IllFormed
  ELSE FType(F, Reduce_from_right(PopFront(List), F, I), Front(List))

\* ReduceT<List, F, I>::Type
RECURSIVE Reduce(_, _, _)
Reduce(List, F, I) ==
  IF IsEmpty(List) THEN I
  ELSE IF Front(List).kind = "ill-formed" THEN IllFormed
  ELSE Reduce(PopFront(List), F, FType(F, I, Front(List)))

\* no metafunction instantiated yet
TLStart ==
  /\ tl_list = Typelist(<<>>)
  /\ tl_elem = Scalar("bool", FALSE)
  /\ tl_op = "none"
  /\ tl_result = IllFormed

\* the typelist and the type the translation unit names
TLInputs ==
  /\ tl_list \in Typelists
  /\ tl_elem \in ElementTypes
  /\ tl_op = "none"
  /\ tl_result = IllFormed

\* using ... = PopFront<PushFront<L, T>>;
TLPushPop ==
  /\ tl_op = "none"
  /\ tl_op' = "PopFront<PushFront>"
  /\ tl_result' = PopFront(PushFront(tl_list, tl_elem))
  /\ UNCHANGED <<tl_list, tl_elem>>

\* using ... = Reverse<L>;
TLReverse ==
  /\ tl_op = "none"
  /\ tl_op' = "Reverse"
  /\ tl_result' = Reverse(tl_list)
  /\ UNCHANGED <<tl_list, tl_elem>>

\* using ... = Reduce<L, PushFrontT, Typelist<>>;
TLReducePushFront ==
  /\ tl_op = "none"
  /\ tl_op' = "Reduce<PushFrontT>"
  /\ tl_result' = Reduce(tl_list, "PushFrontT", Typelist(<<>>))
  /\ UNCHANGED <<tl_list, tl_elem>>

\* using ... = Reduce<L, LargerTypeT, T>;
TLReduceLarger ==
  /\ tl_op = "none"
  /\ tl_op' = "Reduce<LargerTypeT>"
  /\ tl_result' = Reduce(tl_list, "LargerTypeT", tl_elem)
  /\ UNCHANGED <<tl_list, tl_elem>>

\* using ... = Reduce<PopFront<L>, LargerTypeT, Front<L>>;
TLReduceLargest ==
  /\ tl_op = "none"
  /\ tl_op' = "Reduce<PopFront,LargerTypeT,Front>"
  /\ tl_result' = LET rest == PopFront(tl_list) IN
                  IF rest.kind = "ill-formed" THEN IllFormed
                  ELSE Reduce(rest, "LargerTypeT", Front(tl_list))
  /\ UNCHANGED <<tl_list, tl_elem>>

\* using ... = LargestType<L>;
TLLargestType ==
  /\ tl_op = "none"
  /\ tl_op' = "LargestType"
  /\ tl_result' = LargestType(tl_list)
  /\ UNCHANGED <<tl_list, tl_elem>>

\* using ... = Transform<L, AddConstT>;
TLTransformAddConst ==
  /\ tl_op = "none"
  /\ tl_op' = "Transform<AddConstT>"
  /\ tl_result' = Transform(tl_list, "AddConstT")
  /\ UNCHANGED <<tl_list, tl_elem>>

\* using ... = Transform<L, RemoveConstT>;
TLTransformRemoveConst ==
  /\ tl_op = "none"
  /\ tl_op' = "Transform<RemoveConstT>"
  /\ tl_result' = Transform(tl_list, "RemoveConstT")
  /\ UNCHANGED <<tl_list, tl_elem>>

TLNext ==
  \/ TLPushPop /\ UNCHANGED <<ci_vars, oc_vars, fp_vars, any_vars, pr_vars, fe_vars, ft_vars, st_vars, cx_vars, cs_vars>>
  \/ TLReverse /\ UNCHANGED <<ci_vars, oc_vars, fp_vars, any_vars, pr_vars, fe_vars, ft_vars, st_vars, cx_vars, cs_vars>>
  \/ TLReducePushFront /\ UNCHANGED <<ci_vars, oc_vars, fp_vars, any_vars, pr_vars, fe_vars, ft_vars, st_vars, cx_vars, cs_vars>>
  \/ TLReduceLarger /\ UNCHANGED <<ci_vars, oc_vars, fp_vars, any_vars, pr_vars, fe_vars, ft_vars, st_vars, cx_vars, cs_vars>>
  \/ TLReduceLargest /\ UNCHANGED <<ci_vars, oc_vars, fp_vars, any_vars, pr_vars, fe_vars, ft_vars, st_vars, cx_vars, cs_vars>>
  \/ TLLargestType /\ UNCHANGED <<ci_vars, oc_vars, fp_vars, any_vars, pr_vars, fe_vars, ft_vars, st_vars, cx_vars, cs_vars>>
  \/ TLTransformAddConst /\ UNCHANGED <<ci_vars, oc_vars, fp_vars, any_vars, pr_vars, fe_vars, ft_vars, st_vars, cx_vars, cs_vars>>
  \/ TLTransformRemoveConst /\ UNCHANGED <<ci_vars, oc_vars, fp_vars, any_vars, pr_vars, fe_vars, ft_vars, st_vars, cx_vars, cs_vars>>

\* ------------------------------------------------------------------------
\* Type erasure: Any
\* ------------------------------------------------------------------------
\* the types of the objects stored, and their values
AnyTypes == {"int", "long", "double", "std::string"}
AnyValues == 0..MaxAnyValue
AnyObjects == [type : AnyTypes, value : AnyValues]

NoObject == [type |-> "none", value |-> 0]
\* a pointer value: its kind, the class of the object it points to, the object
NullHeld == [pointer |-> "null", class |-> [template |-> "none", arg |-> "none"], object |-> NoObject]
NoOutcome == [how |-> "none", value |-> NoObject, flag |-> FALSE]

\* Holder<T>, the only class derived from HolderBase
Holder(T) == [template |-> "Holder", arg |-> T]

\* std::make_unique<T>(std::forward<T>(object)): a std::unique_ptr<T> that
\* owns a T, not a Holder<T>
make_unique(T, object) ==
  [pointer |-> "std::unique_ptr", class |-> [template |-> "", arg |-> T], object |-> object]

\* held{initializer}: a HolderBase* is initialised from a raw pointer to a
\* class derived from HolderBase; nothing else converts to it
init_held(initializer) ==
  IF initializer.pointer = "raw" /\ initializer.class.template = "Holder"
  THEN [well_formed |-> TRUE, held |-> initializer]
  ELSE [well_formed |-> FALSE, held |-> NullHeld]

\* Any(T &&object) : held{std::make_unique<T>(std::forward<T>(object))}
Any_ctor(object) == init_held(make_unique(object.type, object))

\* bool has_value() const
has_value(held) == ~(held = NullHeld)

\* dynamic_cast<const Holder<T> *>(held)
dynamic_cast_Holder(T, held) ==
  IF held.pointer = "raw" /\ held.class = Holder(T) THEN held ELSE NullHeld

\* return *specific_held;  in a function returning const T &: the operand
\* is a const Holder<T>, to which a const T & does not bind
return_deref(T, specific_held) ==
  [well_formed |-> FALSE, value |-> NoObject]

\* template <typename T> const T &get_value() const
get_value(T, held) ==
  LET specific_held == dynamic_cast_Holder(T, held)
      ret == return_deref(T, specific_held)
  IN IF ~ret.well_formed THEN [how |-> "ill-formed", value |-> NoObject, flag |-> FALSE]
     ELSE IF specific_held # NullHeld
          THEN [how |-> "returned", value |-> ret.value, flag |-> FALSE]
          ELSE [how |-> "BadTypeException", value |-> NoObject, flag |-> FALSE]

AnyStart ==
  /\ any_pc = "start"
  /\ any_arg = NoObject
  /\ any_held = NullHeld
  /\ any_req = "none"
  /\ any_out = NoOutcome

\* Any a{object};
AnyConstruct ==
  /\ any_pc = "start"
  /\ \E object \in AnyObjects :
       LET made == Any_ctor(object) IN
       /\ any_arg' = object
       /\ any_held' = made.held
       /\ any_out' = [how |-> IF made.well_formed THEN "constructed" ELSE "ill-formed",
                      value |-> NoObject, flag |-> FALSE]
  /\ any_pc' = "constructed"
  /\ UNCHANGED any_req

\* a.has_value()
AnyHasValue ==
  /\ any_pc # "start"
  /\ any_pc' = "has_value"
  /\ any_out' = [how |-> "returned", value |-> NoObject, flag |-> has_value(any_held)]
  /\ UNCHANGED <<any_arg, any_held, any_req>>

\* a.get_value<T>()
AnyGetValue ==
  /\ any_pc # "start"
  /\ \E T \in AnyTypes :
       /\ any_req' = T
       /\ any_out' = get_value(T, any_held)
  /\ any_pc' = "get_value"
  /\ UNCHANGED <<any_arg, any_held>>

AnyNext ==
  \/ AnyConstruct /\ UNCHANGED <<ci_vars, oc_vars, fp_vars, tl_vars, pr_vars, fe_vars, ft_vars, st_vars, cx_vars, cs_vars>>
  \/ AnyHasValue /\ UNCHANGED <<ci_vars, oc_vars, fp_vars, tl_vars, pr_vars, fe_vars, ft_vars, st_vars, cx_vars, cs_vars>>
  \/ AnyGetValue /\ UNCHANGED <<ci_vars, oc_vars, fp_vars, tl_vars, pr_vars, fe_vars, ft_vars, st_vars, cx_vars, cs_vars>>

\* ---- claims about Any ---------------------------------------------------
\* C5: get_value<T>() returns the stored object when the Any holds a T and
\* throws BadTypeException when it holds another type; the held value and
\* has_value() are the same after the call.
C5_GetValueReturnsOrThrows ==
  any_pc = "get_value" =>
    /\ any_req = any_arg.type =>
         any_out.how = "returned" /\ any_out.value = any_arg
    /\ any_req # any_arg.type => any_out.how = "BadTypeException"
    /\ has_value(any_held)
    /\ any_held.object = any_arg

\* ------------------------------------------------------------------------
\* Compile-time programming: cpp98::is_prime and cpp14::is_prime
\* ------------------------------------------------------------------------
Numbers == 0..MaxN

BoolText(b) == IF b THEN "true" ELSE "false"

\* a recursion whose base case forgets the division by 2
RECURSIVE do_is_prime_no_base_test(_, _)
do_is_prime_no_base_test(P, D) ==
  IF D = 2 THEN TRUE
  ELSE (P % D # 0) /\ do_is_prime_no_base_test(P, D - 1)

\* cpp98::do_is_prime<P, D>::value, with its base case D = 2
RECURSIVE do_is_prime(_, _)
do_is_prime(P, D) ==
  IF D = 2 THEN P % 2 # 0
  ELSE (P % D # 0) /\ do_is_prime(P, D - 1)

\* cpp98::is_prime<P>::value: the primary template and the four
\* specializations for 0, 1, 2 and 3
cpp98_is_prime(P) ==
  CASE P = 0 -> FALSE
    [] P = 1 -> FALSE
    [] P = 2 -> TRUE
    [] P = 3 -> TRUE
    [] OTHER -> do_is_prime(P, P \div 2)

\* a loop that stops one divisor early
RECURSIVE is_prime_loop_stops_early(_, _)
is_prime_loop_stops_early(p, d) ==
  IF d < p \div 2
  THEN IF p % d = 0 THEN FALSE ELSE is_prime_loop_stops_early(p, d + 1)
  ELSE p > 1

\* the loop of cpp14::is_prime from divisor d on, and the final  return p > 1
RECURSIVE is_prime_loop(_, _)
is_prime_loop(p, d) ==
  IF d <= p \div 2
  THEN IF p % d = 0 THEN FALSE ELSE is_prime_loop(p, d + 1)
  ELSE p > 1

\* constexpr bool cpp14::is_prime(std::size_t p)
cpp14_is_prime(p) == is_prime_loop(p, 2)

\* Alternative<N, bool = is_prime>: the partial specialization chosen
Alternative(is_prime_N) ==
  IF is_prime_N THEN "Alternative<N, true>" ELSE "Alternative<N, false>"

\* foo<N>(): "not " is printed under  if constexpr (!is_prime)
foo(is_prime_N) == IF ~is_prime_N THEN "not prime" ELSE "prime"

\* nothing instantiated yet
PrimeStart ==
  /\ pr_n = 0
  /\ pr_is98 = "unset" /\ pr_is14 = "unset"
  /\ pr_alt98 = "unset" /\ pr_alt14 = "unset"
  /\ pr_foo98 = "unset" /\ pr_foo14 = "unset"

\* the N the translation unit names
PrimeInputs ==
  /\ pr_n \in Numbers
  /\ pr_is98 = "unset" /\ pr_is14 = "unset"
  /\ pr_alt98 = "unset" /\ pr_alt14 = "unset"
  /\ pr_foo98 = "unset" /\ pr_foo14 = "unset"

\* cpp98::is_prime<N>::value
PrimeValue98 ==
  /\ pr_is98 = "unset"
  /\ pr_is98' = BoolText(cpp98_is_prime(pr_n))
  /\ UNCHANGED <<pr_n, pr_is14, pr_alt98, pr_alt14, pr_foo98, pr_foo14>>

\* cpp14::is_prime(N)
PrimeValue14 ==
  /\ pr_is14 = "unset"
  /\ pr_is14' = BoolText(cpp14_is_prime(pr_n))
  /\ UNCHANGED <<pr_n, pr_is98, pr_alt98, pr_alt14, pr_foo98, pr_foo14>>

\* std::ignore = cpp98::Alternative<N>{};
PrimeAlternative98 ==
  /\ pr_alt98 = "unset"
  /\ pr_alt98' = Alternative(cpp98_is_prime(pr_n))
  /\ UNCHANGED <<pr_n, pr_is98, pr_is14, pr_alt14, pr_foo98, pr_foo14>>

\* std::ignore = cpp14::Alternative<N>{};
PrimeAlternative14 ==
  /\ pr_alt14 = "unset"
  /\ pr_alt14' = Alternative(cpp14_is_prime(pr_n))
  /\ UNCHANGED <<pr_n, pr_is98, pr_is14, pr_alt98, pr_foo98, pr_foo14>>

\* cpp98::foo<N>();
PrimeFoo98 ==
  /\ pr_foo98 = "unset"
  /\ pr_foo98' = foo(cpp98_is_prime(pr_n))
  /\ UNCHANGED <<pr_n, pr_is98, pr_is14, pr_alt98, pr_alt14, pr_foo14>>

\* cpp14::foo<N>();
PrimeFoo14 ==
  /\ pr_foo14 = "unset"
  /\ pr_foo14' = foo(cpp14_is_prime(pr_n))
  /\ UNCHANGED <<pr_n, pr_is98, pr_is14, pr_alt98, pr_alt14, pr_foo98>>

PrimeNext ==
  \/ PrimeValue98 /\ UNCHANGED <<ci_vars, oc_vars, fp_vars, tl_vars, any_vars, fe_vars, ft_vars, st_vars, cx_vars, cs_vars>>
  \/ PrimeValue14 /\ UNCHANGED <<ci_vars, oc_vars, fp_vars, tl_vars, any_vars, fe_vars, ft_vars, st_vars, cx_vars, cs_vars>>
  \/ PrimeAlternative98 /\ UNCHANGED <<ci_vars, oc_vars, fp_vars, tl_vars, any_vars, fe_vars, ft_vars, st_vars, cx_vars, cs_vars>>
  \/ PrimeAlternative14 /\ UNCHANGED <<ci_vars, oc_vars, fp_vars, tl_vars, any_vars, fe_vars, ft_vars, st_vars, cx_vars, cs_vars>>
  \/ PrimeFoo98 /\ UNCHANGED <<ci_vars, oc_vars, fp_vars, tl_vars, any_vars, fe_vars, ft_vars, st_vars, cx_vars, cs_vars>>
  \/ PrimeFoo14 /\ UNCHANGED <<ci_vars, oc_vars, fp_vars, tl_vars, any_vars, fe_vars, ft_vars, st_vars, cx_vars, cs_vars>>

\* ---- claims about is_prime ----------------------------------------------
\* p has exactly two divisors
IsPrimeNumber(p) ==
  p > 1 /\ \A a \in 2..(p - 1) : \A b \in 2..(p - 1) : a * b # p

\* C11: cpp14::is_prime(p) is true exactly for the prime numbers, and
\* cpp14::Alternative<N> / cpp14::foo<N> take the true / prime branch
\* exactly for prime N.
C11_Cpp14IsPrimeExact ==
  /\ pr_is14 # "unset" => (pr_is14 = "true" <=> IsPrimeNumber(pr_n))
  /\ pr_alt14 # "unset" => (pr_alt14 = "Alternative<N, true>" <=> IsPrimeNumber(pr_n))
  /\ pr_foo14 # "unset" => (pr_foo14 = "prime" <=> IsPrimeNumber(pr_n))

\* 31 was found prime by all three
C11_Witness ==
  /\ pr_n = 31
  /\ pr_is14 = "true" /\ pr_alt14 = "Alternative<N, true>" /\ pr_foo14 = "prime"

\* C12: cpp98::is_prime<P>::value equals cpp14::is_prime(P) for every P.
C12_Cpp98EqualsCpp14 ==
  (pr_is98 # "unset" /\ pr_is14 # "unset") => pr_is98 = pr_is14

\* both implementations rejected 69
C12_Witness ==
  pr_n = 69 /\ pr_is98 = "false" /\ pr_is14 = "false"

\* ---- claims about the typelist metafunctions ---------------------------
\* the elements of a sequence in the opposite order
Opposite(es) == [i \in 1..Len(es) |-> es[Len(es) + 1 - i]]

\* C6: PopFront<PushFront<L, T>> is L, for the empty L too.
C6_PopFrontOfPushFrontIsNoop ==
  tl_op = "PopFront<PushFront>" => tl_result = tl_list

\* the no-op on the empty typelist
C6_Witness ==
  tl_op = "PopFront<PushFront>" /\ tl_list = Typelist(<<>>) /\ tl_result = Typelist(<<>>)

\* C7: Reverse<L> is the typelist of L's elements in the opposite order, and
\* Typelist<> for the empty typelist.
C7_ReverseYieldsOppositeOrder ==
  tl_op = "Reverse" => tl_result = Typelist(Opposite(tl_list.elems))

\* F(...F(F(I, T1), T2)..., Tn) over the first n elements of es
RECURSIVE LeftFold(_, _, _, _)
LeftFold(F, I, es, n) ==
  IF n = 0 THEN I ELSE FType(F, LeftFold(F, I, es, n - 1), es[n])

\* C8: Reduce<L, F, I> is the left fold of F over L from I, I itself for the
\* empty typelist, and with PushFrontT from Typelist<> it is L reversed.
C8_ReduceIsLeftFold ==
  /\ tl_op = "Reduce<PushFrontT>" =>
       /\ tl_result = LeftFold("PushFrontT", Typelist(<<>>), tl_list.elems, Len(tl_list.elems))
       /\ tl_result = Typelist(Opposite(tl_list.elems))
  /\ tl_op = "Reduce<LargerTypeT>" =>
       /\ tl_result = LeftFold("LargerTypeT", tl_elem, tl_list.elems, Len(tl_list.elems))
       /\ (tl_list.elems = <<>> => tl_result = tl_elem)

\* a list of three different types came out reversed
C8_Witness ==
  /\ tl_op = "Reduce<PushFrontT>"
  /\ Len(tl_list.elems) = 3
  /\ Cardinality({tl_list.elems[i] : i \in 1..3}) = 3
  /\ tl_result.elems[1] = tl_list.elems[3]
  /\ tl_result.elems[3] = tl_list.elems[1]

\* the first element of es that no element exceeds in size
FirstLargest(es) ==
  es[CHOOSE i \in 1..Len(es) :
       /\ \A j \in 1..Len(es) : sizeof(es[j]) <= sizeof(es[i])
       /\ \A j \in 1..(i - 1) : sizeof(es[j]) < sizeof(es[i])]

\* C9: for non-empty L, Reduce<PopFront<L>, LargerTypeT, Front<L>> and
\* LargestType<L> both yield the first element of maximal size; LargestType
\* of the empty typelist is char.
C9_LargestAgree ==
  /\ (tl_op \in {"Reduce<PopFront,LargerTypeT,Front>", "LargestType"} /\ tl_list.elems # <<>>)
       => tl_result = FirstLargest(tl_list.elems)
  /\ (tl_op = "LargestType" /\ tl_list.elems = <<>>)
       => tl_result = Scalar("char", FALSE)

\* two equally large types are in the list and the earlier one was picked
C9_Witness ==
  /\ tl_op = "Reduce<PopFront,LargerTypeT,Front>"
  /\ Len(tl_list.elems) = 3
  /\ tl_list.elems[1].name = "int"
  /\ tl_list.elems[2].name = "long"
  /\ tl_list.elems[3].name = "long long"
  /\ tl_result = tl_list.elems[2]

\* C10: Transform<L, MetaFcn> has L's length and its i-th element is MetaFcn
\* of L's i-th element; the empty typelist is left as it is; AddConstT makes
\* every element const.
C10_TransformIsElementwise ==
  /\ tl_op = "Transform<AddConstT>" =>
       /\ tl_result.kind = "Typelist"
       /\ Len(tl_result.elems) = Len(tl_list.elems)
       /\ \A i \in 1..Len(tl_list.elems) :
            tl_result.elems[i] = Scalar(tl_list.elems[i].name, TRUE)
  /\ tl_op = "Transform<RemoveConstT>" =>
       /\ tl_result.kind = "Typelist"
       /\ Len(tl_result.elems) = Len(tl_list.elems)
       /\ \A i \in 1..Len(tl_list.elems) :
            tl_result.elems[i] = Scalar(tl_list.elems[i].name, FALSE)

\* three different non-const types became const, in place
C10_Witness ==
  /\ tl_op = "Transform<AddConstT>"
  /\ Len(tl_list.elems) = 3
  /\ Cardinality({tl_list.elems[i].name : i \in 1..3}) = 3
  /\ \A i \in 1..3 : ~tl_list.elems[i].const
  /\ \A i \in 1..3 : tl_result.elems[i].const /\ tl_result.elems[i].name = tl_list.elems[i].name

\* ------------------------------------------------------------------------
\* Generic libraries: foreach
\* ------------------------------------------------------------------------
\* elements of the containers
Elements == {1, 2, 3}

Vectors == SeqsUpTo(Elements, MaxVecLen)

\* the callables passed to foreach, each with the extra arguments it takes
ForeachCallables ==
  { [op |-> "f", args |-> <<>>],
    [op |-> "F()", args |-> <<>>],
    [op |-> "&C::memberfn", args |-> <<"c">>],
    [op |-> "lambda(prefix, i)", args |-> <<"fib - ">>],
    [op |-> "lambda(a, b, i)", args |-> <<"a", "b">>] }

\* an argument of an invocation: one of the extra arguments, or the element
Extra(v) == [arg |-> "extra", value |-> v]
Element(e) == [arg |-> "element", value |-> e]

\* std::invoke(op, args..., *current): the arguments op is invoked with
std_invoke_elem_first(args, elem) == <<Element(elem)>> \o [i \in 1..Len(args) |-> Extra(args[i])]
std_invoke(args, elem) == [i \in 1..Len(args) |-> Extra(args[i])] \o <<Element(elem)>>

\* the loop condition of foreach
foreach_continues(current, end) == current # end

ForeachStart ==
  /\ fe_pc = "start"
  /\ fe_vec = <<>>
  /\ fe_first = 1
  /\ fe_current = 1
  /\ fe_end = 1
  /\ fe_op = "f"
  /\ fe_args = <<>>
  /\ fe_log = <<>>

\* the container is any vector up to the bound
ForeachInputs ==
  /\ fe_pc = "start"
  /\ fe_vec \in Vectors
  /\ fe_first = 1
  /\ fe_current = 1
  /\ fe_end = 1
  /\ fe_op = "f"
  /\ fe_args = <<>>
  /\ fe_log = <<>>

\* foreach(current, end, op, args...) is entered with a valid range of fe_vec
ForeachCall ==
  /\ fe_pc = "start"
  /\ \E b \in 1..(Len(fe_vec) + 1) : \E e \in b..(Len(fe_vec) + 1) :
       /\ fe_first' = b
       /\ fe_current' = b
       /\ fe_end' = e
  /\ \E c \in ForeachCallables :
       /\ fe_op' = c.op
       /\ fe_args' = c.args
  /\ fe_log' = <<>>
  /\ fe_pc' = "loop"
  /\ UNCHANGED fe_vec

\* one iteration of the while loop: invoke op, then ++current
ForeachIteration ==
  /\ fe_pc = "loop"
  /\ foreach_continues(fe_current, fe_end)
  /\ fe_log' = Append(fe_log, std_invoke(fe_args, fe_vec[fe_current]))
  /\ fe_current' = fe_current + 1
  /\ UNCHANGED <<fe_pc, fe_vec, fe_first, fe_end, fe_op, fe_args>>

\* the loop condition fails and foreach returns
ForeachReturn ==
  /\ fe_pc = "loop"
  /\ ~foreach_continues(fe_current, fe_end)
  /\ fe_pc' = "done"
  /\ UNCHANGED <<fe_vec, fe_first, fe_current, fe_end, fe_op, fe_args, fe_log>>

ForeachNext ==
  \/ ForeachCall /\ UNCHANGED <<ci_vars, oc_vars, fp_vars, tl_vars, any_vars, pr_vars, ft_vars, st_vars, cx_vars, cs_vars>>
  \/ ForeachIteration /\ UNCHANGED <<ci_vars, oc_vars, fp_vars, tl_vars, any_vars, pr_vars, ft_vars, st_vars, cx_vars, cs_vars>>
  \/ ForeachReturn /\ UNCHANGED <<ci_vars, oc_vars, fp_vars, tl_vars, any_vars, pr_vars, ft_vars, st_vars, cx_vars, cs_vars>>

\* ---- claims about foreach --------------------------------------------------
\* C13: foreach invokes op once per element of [current, end), in iteration
\* order, with the extra args before the element, and never for end itself;
\* for an empty range op is never invoked.
C13_ForeachVisitsRangeInOrder ==
  /\ fe_pc \in {"loop", "done"} =>
       /\ fe_current \in fe_first..fe_end
       /\ Len(fe_log) = fe_current - fe_first
       /\ \A i \in 1..Len(fe_log) :
            /\ Len(fe_log[i]) = Len(fe_args) + 1
            /\ \A j \in 1..Len(fe_args) : fe_log[i][j] = Extra(fe_args[j])
            /\ fe_log[i][Len(fe_args) + 1] = Element(fe_vec[fe_first + i - 1])
  /\ fe_pc = "done" =>
       /\ Len(fe_log) = fe_end - fe_first
       /\ (fe_first = fe_end => fe_log = <<>>)

\* a range of two different elements that stops before the container's last
\* element was walked with two extra arguments
C13_Witness ==
  /\ fe_pc = "done"
  /\ fe_vec = <<1, 2, 3>>
  /\ fe_first = 1 /\ fe_end = 3
  /\ fe_args = <<"a", "b">>
  /\ fe_log = << <<Extra("a"), Extra("b"), Element(1)>>,
                 <<Extra("a"), Extra("b"), Element(2)>> >>

\* ------------------------------------------------------------------------
\* Variadic templates: fold_traverse over a binary tree
\* ------------------------------------------------------------------------
NodeAddresses == 1..MaxNodes

\* pointers to the members of Node
MemberPointers == {"left", "right"}

\* Node{i}: both children null
Node(i) == [value |-> i, left |-> nullptr, right |-> nullptr]

\* the pointers to node c held in the nodes of h
Parents(h, c) ==
  {<<a, m>> \in NodeAddresses \X MemberPointers :
     (IF m = "left" THEN h[a].left ELSE h[a].right) = c}

\* the ways to link the nodes a..MaxNodes when a child is a node allocated
\* later than its parent, or nullptr
RECURSIVE LinkedFrom(_)
LinkedFrom(a) ==
  IF a > MaxNodes THEN {<<>>}
  ELSE { <<n>> \o rest :
           n \in [value : {0}, left : {nullptr} \cup ((a + 1)..MaxNodes),
                  right : {nullptr} \cup ((a + 1)..MaxNodes)],
           rest \in LinkedFrom(a + 1) }

\* the trees main can link: nodes are allocated in order and linked to later
\* nodes, and no node has two parents
Heaps ==
  { h \in LinkedFrom(1) : \A c \in NodeAddresses : Cardinality(Parents(h, c)) <= 1 }

\* stands for the outcome of dereferencing a null pointer (no address)
Undefined == -1

\* p->*step
PtrMem(heap, p, step) ==
  IF p = Undefined \/ p = nullptr THEN Undefined
  ELSE IF step = "left" THEN heap[p].left ELSE heap[p].right

\* the binary left fold (root ->* ... ->* steps)
RECURSIVE fold_traverse_last_first(_, _, _)
fold_traverse_last_first(heap, root, steps) ==
  IF steps = <<>> THEN root
  ELSE PtrMem(heap, fold_traverse_last_first(heap, root, Tail(steps)), Head(steps))
RECURSIVE fold_traverse(_, _, _)
fold_traverse(heap, root, steps) ==
  IF steps = <<>> THEN root
  ELSE PtrMem(heap, fold_traverse(heap, root, SubSeq(steps, 1, Len(steps) - 1)),
              steps[Len(steps)])

\* what a call can do: return a pointer, or crash
Returned(p) == [status |-> "returned", node |-> p]
Crashed == [status |-> "crashed", node |-> nullptr]
NotCalled == [status |-> "none", node |-> nullptr]

FoldStart ==
  /\ ft_pc = "start"
  /\ ft_heap = [a \in NodeAddresses |-> Node(0)]
  /\ ft_root = 1
  /\ ft_steps = <<>>
  /\ ft_result = NotCalled

\* any tree up to the bound
FoldInputs ==
  /\ ft_pc = "start"
  /\ ft_heap \in Heaps
  /\ ft_root = 1
  /\ ft_steps = <<>>
  /\ ft_result = NotCalled

\* fold_traverse(root, steps...) where every pointer dereferenced is non-null
FoldTraverse ==
  /\ ft_pc = "start"
  /\ \E r \in NodeAddresses : \E ss \in SeqsUpTo(MemberPointers, MaxSteps) :
       /\ fold_traverse(ft_heap, r, ss) # Undefined
       /\ ft_root' = r
       /\ ft_steps' = ss
       /\ ft_result' = Returned(fold_traverse(ft_heap, r, ss))
  /\ ft_pc' = "returned"
  /\ UNCHANGED ft_heap

\* fold_traverse(root, steps...) that dereferences a null pointer on the way:
\* undefined behaviour, the call crashes or returns some pointer
FoldTraverseThroughNull ==
  /\ ft_pc = "start"
  /\ \E r \in NodeAddresses : \E ss \in SeqsUpTo(MemberPointers, MaxSteps) :
       /\ fold_traverse(ft_heap, r, ss) = Undefined
       /\ ft_root' = r
       /\ ft_steps' = ss
       /\ ft_result' \in {Crashed} \cup {Returned(p) : p \in {nullptr} \cup NodeAddresses}
  /\ ft_pc' = "returned"
  /\ UNCHANGED ft_heap

FoldNext ==
  \/ FoldTraverse /\ UNCHANGED <<ci_vars, oc_vars, fp_vars, tl_vars, any_vars, pr_vars, fe_vars, st_vars, cx_vars, cs_vars>>
  \/ FoldTraverseThroughNull /\ UNCHANGED <<ci_vars, oc_vars, fp_vars, tl_vars, any_vars, pr_vars, fe_vars, st_vars, cx_vars, cs_vars>>

\* ---- claims about fold_traverse --------------------------------------------
\* the pointers met when following steps from p one after the other: p itself,
\* then p->*s1, then (p->*s1)->*s2, ...; the walk ends at a null pointer
RECURSIVE Follow(_, _, _)
Follow(heap, p, steps) ==
  IF steps = <<>> \/ p = nullptr THEN <<p>>
  ELSE <<p>> \o Follow(heap, IF Head(steps) = "left" THEN heap[p].left ELSE heap[p].right,
                       Tail(steps))

\* C14: fold_traverse(root, s1, ..., sk) returns the node reached from root by
\* following s1..sk in the order given; with no steps it returns root.
C14_FoldTraverseFollowsSteps ==
  ft_pc = "returned" =>
    LET path == Follow(ft_heap, ft_root, ft_steps)
    IN /\ Len(path) = Len(ft_steps) + 1 => ft_result = Returned(path[Len(path)])
       /\ ft_steps = <<>> => ft_result = Returned(ft_root)

\* the tree of main: left, right, right from the root reaches the fourth node
C14_Witness ==
  /\ ft_pc = "returned"
  /\ ft_root = 1
  /\ ft_steps = <<"left", "right", "right">>
  /\ ft_heap[1].left = 2 /\ ft_heap[2].right = 3 /\ ft_heap[3].right = 4
  /\ ft_heap[1].right = nullptr /\ ft_heap[2].left = nullptr
  /\ ft_result = Returned(4)

\* ------------------------------------------------------------------------
\* enable_if: the constructors of String
\* ------------------------------------------------------------------------
\* an expression or a type: its type without cv and reference, whether it is
\* const, and "lvalue"/"rvalue" (for a type: a reference T& / anything else)
Expr(t, c, cat) == [type |-> t, const |-> c, category |-> cat]

\* the arguments a String is constructed from: a string literal (an lvalue
\* of type const char[4]), a std::string, a String, an int
StringArguments ==
  {Expr("const char[4]", TRUE, "lvalue")}
    \cup {Expr(t, c, cat) : t \in {"std::string", "String", "int"},
                           c \in BOOLEAN, cat \in {"lvalue", "rvalue"}}

\* a constructor parameter: const T& / T&& / T by value
Param(t, kind) == [type |-> t, kind |-> kind]

\* whether the parameter can be initialized from the argument without a
\* user-defined conversion
Binds(param, arg) ==
  CASE param.kind = "const&" -> arg.type = param.type
    [] param.kind = "&&" -> arg.type = param.type /\ arg.category = "rvalue" /\ ~arg.const
    [] param.kind = "value" ->
         \/ arg.type = param.type
         \/ param.type = "const char*" /\ arg.type = "const char[4]"

\* the constructors of std::string that take one argument
StdStringConstructors ==
  { Param("std::string", "const&"), Param("std::string", "&&"),
    Param("const char*", "value") }

\* std::is_constructible_v<std::string, S>
is_constructible_std_string_always(S) == TRUE
is_constructible_std_string(S) ==
  \E ctor \in StdStringConstructors : Binds(ctor, S)

\* the candidates of an initialization String(arg) that are viable, each with
\* its implicit conversion sequence: rank "exact" or "user-defined", the
\* reference kind of the parameter and whether binding adds const
TemplateCandidate(arg) ==
  \* S is deduced as T& for an lvalue and as T for an rvalue, S&& collapses
  IF is_constructible_std_string(arg)
  THEN {[ctor |-> "String(S&&)", template |-> TRUE, rank |-> "exact",
         rvalue_ref |-> arg.category = "rvalue", adds_const |-> FALSE]}
  ELSE {}

\* whether arg converts to a String temporary through the converting
\* constructor template
ConvertsToString(arg) == arg.type # "String" /\ TemplateCandidate(arg) # {}

\* String(const String&), implicitly generated
CopyCandidate(arg) ==
  IF Binds(Param("String", "const&"), arg)
  THEN {[ctor |-> "String(const String&)", template |-> FALSE, rank |-> "exact",
         rvalue_ref |-> FALSE, adds_const |-> ~arg.const]}
  ELSE IF ConvertsToString(arg)
  THEN {[ctor |-> "String(const String&)", template |-> FALSE, rank |-> "user-defined",
         rvalue_ref |-> FALSE, adds_const |-> TRUE]}
  ELSE {}

\* String(String&&), implicitly generated
MoveCandidate(arg) ==
  IF Binds(Param("String", "&&"), arg)
  THEN {[ctor |-> "String(String&&)", template |-> FALSE, rank |-> "exact",
         rvalue_ref |-> TRUE, adds_const |-> FALSE]}
  ELSE IF ConvertsToString(arg)
  THEN {[ctor |-> "String(String&&)", template |-> FALSE, rank |-> "user-defined",
         rvalue_ref |-> TRUE, adds_const |-> FALSE]}
  ELSE {}

Viable(arg) == TemplateCandidate(arg) \cup CopyCandidate(arg) \cup MoveCandidate(arg)

\* whether candidate a is a better match than candidate b for an argument of
\* the given value category
Better(a, b, category) ==
  \/ a.rank = "exact" /\ b.rank = "user-defined"
  \/ /\ a.rank = b.rank
     /\ \/ category = "rvalue" /\ a.rvalue_ref /\ ~b.rvalue_ref
        \/ a.rvalue_ref = b.rvalue_ref /\ ~a.adds_const /\ b.adds_const
        \/ /\ a.rvalue_ref = b.rvalue_ref /\ a.adds_const = b.adds_const
           /\ ~a.template /\ b.template

\* overload resolution for String(arg): the constructor chosen
Select(arg) ==
  LET best == {a \in Viable(arg) : \A b \in Viable(arg) \ {a} : Better(a, b, arg.category)}
  IN IF best = {} THEN "ill-formed" ELSE (CHOOSE a \in best : TRUE).ctor

StringStart ==
  /\ st_pc = "start"
  /\ st_log = <<>>

\* the next statement constructs a String from arg
StringConstruct ==
  /\ st_pc = "start"
  /\ Len(st_log) < MaxStatements
  /\ \E arg \in StringArguments :
       st_log' = Append(st_log, [arg |-> arg,
                                 viable |-> {c.ctor : c \in Viable(arg)},
                                 selected |-> Select(arg)])
  /\ UNCHANGED st_pc

\* return 0;
StringReturn ==
  /\ st_pc = "start"
  /\ st_pc' = "done"
  /\ UNCHANGED st_log

StringNext ==
  \/ StringConstruct /\ UNCHANGED <<ci_vars, oc_vars, fp_vars, tl_vars, any_vars, pr_vars, fe_vars, ft_vars, cx_vars, cs_vars>>
  \/ StringReturn /\ UNCHANGED <<ci_vars, oc_vars, fp_vars, tl_vars, any_vars, pr_vars, fe_vars, ft_vars, cx_vars, cs_vars>>

\* ---- claims about String's constructors ------------------------------------
\* C15: the constructor template is a candidate exactly for the arguments
\* std::string can be constructed from; a string literal and a std::string
\* lvalue or rvalue select the template, a non-const String lvalue selects
\* the copy constructor and a String rvalue the move constructor.
C15_StringConstructorSelection ==
  \A i \in 1..Len(st_log) :
    LET e == st_log[i]
    IN /\ "String(S&&)" \in e.viable <=> e.arg.type \in {"const char[4]", "std::string"}
       /\ e.arg.type \in {"const char[4]", "std::string"} => e.selected = "String(S&&)"
       /\ e.arg = Expr("String", FALSE, "lvalue") => e.selected = "String(const String&)"
       /\ e.arg = Expr("String", FALSE, "rvalue") => e.selected = "String(String&&)"

\* a String was copied from a non-const lvalue and then moved from
C15_Witness ==
  /\ Len(st_log) = 2
  /\ st_log[1].arg = Expr("String", FALSE, "lvalue")
  /\ st_log[1].selected = "String(const String&)"
  /\ st_log[2].arg = Expr("String", FALSE, "rvalue")
  /\ st_log[2].selected = "String(String&&)"

\* ------------------------------------------------------------------------
\* Complex
\* ------------------------------------------------------------------------
\* Complex(real, imag)
Complex(real, imag) == [m_real |-> real, m_imag |-> imag]

\* the parts of the numbers of the model
Parts == 0..MaxPart

\* Complex::operator+=, as the value of *this afterwards
PlusAssign(this, other) ==
  Complex(this.m_real + other.m_real, this.m_imag + other.m_imag)

\* Complex::operator++(), as the value of *this afterwards
PreIncrement(this) == Complex(this.m_real + 1, this.m_imag + 1)

\* Complex::operator++(int): tmp is a copy of *this, tmp is incremented and
\* returned; *this is not assigned to
PostIncrement(this) ==
  LET tmp == PreIncrement(Complex(this.m_real, this.m_imag))
  IN [this |-> this, returned |-> tmp]

ComplexStart ==
  /\ cx_pc = "start"
  /\ cx_c = Complex(0, 0)
  /\ cx_prev = Complex(0, 0)
  /\ cx_op = "none"
  /\ cx_ret = Complex(0, 0)

\* Complex c{real, imag};
ComplexConstruct ==
  /\ cx_pc = "start"
  /\ \E real \in Parts, imag \in Parts : cx_c' = Complex(real, imag)
  /\ cx_prev' = cx_c
  /\ cx_op' = "Complex"
  /\ cx_ret' = cx_c'
  /\ cx_pc' = "constructed"

\* c += other;
ComplexPlusAssign ==
  /\ cx_pc = "constructed"
  /\ \E real \in Parts, imag \in Parts :
       /\ cx_c.m_real + real <= MaxPart
       /\ cx_c.m_imag + imag <= MaxPart
       /\ cx_c' = PlusAssign(cx_c, Complex(real, imag))
  /\ cx_prev' = cx_c
  /\ cx_op' = "+="
  /\ cx_ret' = cx_c'
  /\ UNCHANGED cx_pc

\* ++c;
ComplexPreIncrement ==
  /\ cx_pc = "constructed"
  /\ cx_c.m_real < MaxPart /\ cx_c.m_imag < MaxPart
  /\ cx_c' = PreIncrement(cx_c)
  /\ cx_prev' = cx_c
  /\ cx_op' = "++c"
  /\ cx_ret' = cx_c'
  /\ UNCHANGED cx_pc

\* c++;
ComplexPostIncrement ==
  /\ cx_pc = "constructed"
  /\ cx_c.m_real < MaxPart /\ cx_c.m_imag < MaxPart
  /\ cx_c' = PostIncrement(cx_c).this
  /\ cx_prev' = cx_c
  /\ cx_op' = "c++"
  /\ cx_ret' = PostIncrement(cx_c).returned
  /\ UNCHANGED cx_pc

ComplexNext ==
  \/ ComplexConstruct /\ UNCHANGED <<ci_vars, oc_vars, fp_vars, tl_vars, any_vars, pr_vars, fe_vars, ft_vars, st_vars, cs_vars>>
  \/ ComplexPlusAssign /\ UNCHANGED <<ci_vars, oc_vars, fp_vars, tl_vars, any_vars, pr_vars, fe_vars, ft_vars, st_vars, cs_vars>>
  \/ ComplexPreIncrement /\ UNCHANGED <<ci_vars, oc_vars, fp_vars, tl_vars, any_vars, pr_vars, fe_vars, ft_vars, st_vars, cs_vars>>
  \/ ComplexPostIncrement /\ UNCHANGED <<ci_vars, oc_vars, fp_vars, tl_vars, any_vars, pr_vars, fe_vars, ft_vars, st_vars, cs_vars>>

\* ---- claims about Complex --------------------------------------------------
\* C16: postfix ++ returns the value the object had before the call and
\* leaves the object with both parts increased by one, as prefix ++ does.
C16_PostfixReturnsOldAndIncrements ==
  cx_op = "c++" =>
    /\ cx_ret = cx_prev
    /\ cx_c = Complex(cx_prev.m_real + 1, cx_prev.m_imag + 1)
    /\ cx_c = PreIncrement(cx_prev)

\* ------------------------------------------------------------------------
\* Case-insensitive string, first try: CIString
\* ------------------------------------------------------------------------
\* '@', 'A', 'Z', '[', '`', 'a', 'z', '{': the letters at both ends of the
\* alphabet and the characters next to the two ranges
CIChars == {64, 65, 90, 91, 96, 97, 122, 123}

CIStrings == {Append(s, 0) : s \in SeqsUpTo(CIChars, MaxCILen)}

\* CIString(const char*): keeps the pointer
CIString(str) == [m_str |-> str]

\* a to_lower whose range test excludes 'A'
to_lower_excl_A(ch) == IF ch > 65 /\ ch < 91 THEN (ch + 32) % 256 ELSE ch

\* to_lower: dec is the character as uint8_t, the sum is converted to char
to_lower(ch) == IF ch > 64 /\ ch < 91 THEN (ch + 32) % 256 ELSE ch

\* operator==(const CIString&, const CIString&): the loop from position i
RECURSIVE CIString_eq_from(_, _, _)
CIString_eq_from(l, r, i) ==
  IF l[i] # 0 /\ r[i] # 0
  THEN IF ~(to_lower(l[i]) = to_lower(r[i])) THEN FALSE
       ELSE CIString_eq_from(l, r, i + 1)
  ELSE l[i] = r[i]

\* operator==(const CIString&, const CIString&)
CIString_eq(lhs, rhs) == CIString_eq_from(lhs.m_str, rhs.m_str, 1)

\* operator!=(const CIString&, const CIString&)
CIString_ne(lhs, rhs) == ~CIString_eq(lhs, rhs)

\* operator==(const ci_string&, const ci_string&): compare() is 0
ci_string_eq(lhs, rhs) == string_compare(lhs, c_str(rhs)) = 0

CIStringStart ==
  /\ cs_a = <<0>>
  /\ cs_b = <<0>>
  /\ cs_eq = "unset"
  /\ cs_ne = "unset"
  /\ cs_ci = "unset"

\* a and b are any two strings up to the bound
CIStringInputs ==
  /\ cs_a \in CIStrings
  /\ cs_b \in CIStrings
  /\ cs_eq = "unset"
  /\ cs_ne = "unset"
  /\ cs_ci = "unset"

\* CIString(a) == CIString(b)
CIStringEquals ==
  /\ cs_eq = "unset"
  /\ cs_eq' = BoolText(CIString_eq(CIString(cs_a), CIString(cs_b)))
  /\ UNCHANGED <<cs_a, cs_b, cs_ne, cs_ci>>

\* CIString(a) != CIString(b)
CIStringNotEquals ==
  /\ cs_ne = "unset"
  /\ cs_ne' = BoolText(CIString_ne(CIString(cs_a), CIString(cs_b)))
  /\ UNCHANGED <<cs_a, cs_b, cs_eq, cs_ci>>

\* ci_string(a) == ci_string(b)
CiStringEquals ==
  /\ cs_ci = "unset"
  /\ cs_ci' = BoolText(ci_string_eq(basic_string(cs_a), basic_string(cs_b)))
  /\ UNCHANGED <<cs_a, cs_b, cs_eq, cs_ne>>

CIStringNext ==
  \/ CIStringEquals /\ UNCHANGED <<ci_vars, oc_vars, fp_vars, tl_vars, any_vars, pr_vars, fe_vars, ft_vars, st_vars, cx_vars>>
  \/ CIStringNotEquals /\ UNCHANGED <<ci_vars, oc_vars, fp_vars, tl_vars, any_vars, pr_vars, fe_vars, ft_vars, st_vars, cx_vars>>
  \/ CiStringEquals /\ UNCHANGED <<ci_vars, oc_vars, fp_vars, tl_vars, any_vars, pr_vars, fe_vars, ft_vars, st_vars, cx_vars>>

\* ---- claims about CIString -------------------------------------------------
\* two characters that are the same, or the two cases of one letter
SameIgnoringCase(c, d) ==
  \/ c = d
  \/ \E u \in 65..90 : {c, d} = {u, u + 32}

\* two C strings of equal length that match position by position ignoring
\* the case of the letters
MatchIgnoringCase(a, b) ==
  /\ Len(a) = Len(b)
  /\ \A i \in 1..Len(a) : SameIgnoringCase(a[i], b[i])

\* C17: CIString(a) == CIString(b) holds exactly when ci_string(a) ==
\* ci_string(b), that is when a and b have equal length and match position by
\* position ignoring case; CIString's != is the negation of its ==.
C17_CIStringAgreesWithCiString ==
  /\ (cs_eq # "unset" /\ cs_ci # "unset") => cs_eq = cs_ci
  /\ cs_eq # "unset" => (cs_eq = "true" <=> MatchIgnoringCase(cs_a, cs_b))
  /\ cs_ci # "unset" => (cs_ci = "true" <=> MatchIgnoringCase(cs_a, cs_b))
  /\ (cs_eq # "unset" /\ cs_ne # "unset") => cs_ne # cs_eq

\* "aZ" and "Az" were found equal by both solutions, and not unequal
C17_Witness ==
  /\ cs_a = <<97, 90, 0>>
  /\ cs_b = <<65, 122, 0>>
  /\ cs_eq = "true" /\ cs_ci = "true" /\ cs_ne = "false"

\* ------------------------------------------------------------------------
\* Specifications
\* ------------------------------------------------------------------------
Init == CIStart /\ OCStart /\ FPStart /\ TLStart /\ AnyStart /\ PrimeStart /\ ForeachStart /\ FoldStart /\ StringStart /\ ComplexStart /\ CIStringStart

InitTL == CIStart /\ OCStart /\ FPStart /\ TLInputs /\ AnyStart /\ PrimeStart /\ ForeachStart /\ FoldStart /\ StringStart /\ ComplexStart /\ CIStringStart

InitPrime == CIStart /\ OCStart /\ FPStart /\ TLStart /\ AnyStart /\ PrimeInputs /\ ForeachStart /\ FoldStart /\ StringStart /\ ComplexStart /\ CIStringStart

InitForeach == CIStart /\ OCStart /\ FPStart /\ TLStart /\ AnyStart /\ PrimeStart /\ ForeachInputs /\ FoldStart /\ StringStart /\ ComplexStart /\ CIStringStart

InitFold == CIStart /\ OCStart /\ FPStart /\ TLStart /\ AnyStart /\ PrimeStart /\ ForeachStart /\ FoldInputs /\ StringStart /\ ComplexStart /\ CIStringStart

InitCIString == CIStart /\ OCStart /\ FPStart /\ TLStart /\ AnyStart /\ PrimeStart /\ ForeachStart /\ FoldStart /\ StringStart /\ ComplexStart /\ CIStringInputs

SpecCI == Init /\ [][CINext]_vars

SpecOC == Init /\ [][OCNext]_vars

SpecFP == Init /\ [][FPNext]_vars

SpecTL == InitTL /\ [][TLNext]_vars

SpecAny == Init /\ [][AnyNext]_vars

SpecPrime == InitPrime /\ [][PrimeNext]_vars

SpecForeach == InitForeach /\ [][ForeachNext]_vars

SpecFold == InitFold /\ [][FoldNext]_vars

SpecString == Init /\ [][StringNext]_vars

SpecComplex == Init /\ [][ComplexNext]_vars

SpecCIString == InitCIString /\ [][CIStringNext]_vars

====
